---- MODULE Spec2Model ----
(***************************************************************************)
(* Model of mem::Malloc<N> (include/malloc/malloc.hpp): a fixed region     *)
(* obtained with mmap, an address-ordered free list threaded through the   *)
(* free bytes, first-fit Alloc with splitting, Free with insertion and     *)
(* coalescing.                                                             *)
(*                                                                         *)
(* Memory is modelled byte by byte, because MemBlock {size, next} and      *)
(* MemBlockHeader {magic, size} are overlaid on the same 16 bytes and the  *)
(* code reads through one view what it wrote through the other.           *)
(* std::size_t, std::uintptr_t and pointers are 64-bit little-endian words *)
(* kept as tuples of 8 bytes; arithmetic on them wraps modulo 2^64 as the  *)
(* unsigned arithmetic of the code does.                                   *)
(***************************************************************************)
EXTENDS Integers, Sequences, FiniteSets, TLC

(***************************************************************************)
(* 64-bit words                                                            *)
(***************************************************************************)
Byte == 0..255

ZERO == <<0, 0, 0, 0, 0, 0, 0, 0>>

NULL == ZERO

\* the word of a small natural number (n < 2^24)
W(n) == <<n % 256, (n \div 256) % 256, (n \div 65536) % 256, 0, 0, 0, 0, 0>>

\* a word that is a small natural number (below 2^24)
Small(w) == w[4] = 0 /\ w[5] = 0 /\ w[6] = 0 /\ w[7] = 0 /\ w[8] = 0

\* the value of a Small word
Val(w) == w[1] + 256 * w[2] + 65536 * w[3]

RECURSIVE AddFrom(_, _, _, _)
AddFrom(a, b, i, c) ==
    IF i > 8 THEN <<>>
    ELSE <<(a[i] + b[i] + c) % 256>> \o AddFrom(a, b, i + 1, (a[i] + b[i] + c) \div 256)

\* a + b modulo 2^64 (directly when neither operand nor the sum leaves 24 bits)
Add(a, b) ==
    IF Small(a) /\ Small(b) /\ Val(a) + Val(b) < 16777216
    THEN W(Val(a) + Val(b))
    ELSE AddFrom(a, b, 1, 0)

Not(a) == <<255 - a[1], 255 - a[2], 255 - a[3], 255 - a[4],
            255 - a[5], 255 - a[6], 255 - a[7], 255 - a[8]>>

\* -a modulo 2^64
Neg(a) == AddFrom(Not(a), W(1), 1, 0)

\* a - b modulo 2^64 (directly when both are small and a >= b)
Sub(a, b) ==
    IF Small(a) /\ Small(b) /\ Val(a) >= Val(b)
    THEN W(Val(a) - Val(b))
    ELSE AddFrom(a, Neg(b), 1, 0)

RECURSIVE LtFrom(_, _, _)
LtFrom(a, b, i) ==
    IF i = 0 THEN FALSE
    ELSE IF a[i] # b[i] THEN a[i] < b[i]
    ELSE LtFrom(a, b, i - 1)

\* unsigned a < b
Lt(a, b) ==
    IF Small(a) /\ Small(b) THEN Val(a) < Val(b)
    ELSE LtFrom(a, b, 8)

\* unsigned a <= b
Le(a, b) == ~Lt(b, a)

RECURSIVE BitAnd(_, _)
BitAnd(x, y) ==
    IF x = 0 \/ y = 0 THEN 0
    ELSE (x % 2) * (y % 2) + 2 * BitAnd(x \div 2, y \div 2)

RECURSIVE DivFrom(_, _, _, _)
DivFrom(a, n, i, r) ==
    IF i = 0 THEN <<>>
    ELSE Append(DivFrom(a, n, i - 1, (r * 256 + a[i]) % n), (r * 256 + a[i]) \div n)

\* a / n for a small natural number n
Div(a, n) == DivFrom(a, n, 8, 0)

RECURSIVE ModFrom(_, _, _, _)
ModFrom(a, n, i, r) ==
    IF i = 0 THEN r
    ELSE ModFrom(a, n, i - 1, (r * 256 + a[i]) % n)

\* a % n for a small natural number n, as a natural number
Mod(a, n) == ModFrom(a, n, 8, 0)

RECURSIVE MulFrom(_, _, _, _)
MulFrom(a, n, i, c) ==
    IF i > 8 THEN <<>>
    ELSE <<(a[i] * n + c) % 256>> \o MulFrom(a, n, i + 1, (a[i] * n + c) \div 256)

\* a * n modulo 2^64 for a small natural number n
Mul(a, n) == MulFrom(a, n, 1, 0)

\* bitwise a & b
And(a, b) == <<BitAnd(a[1], b[1]), BitAnd(a[2], b[2]), BitAnd(a[3], b[3]),
               BitAnd(a[4], b[4]), BitAnd(a[5], b[5]), BitAnd(a[6], b[6]),
               BitAnd(a[7], b[7]), BitAnd(a[8], b[8])>>

(***************************************************************************)
(* Program constants                                                       *)
(***************************************************************************)
\* static const int kMemMagicNum = 0xDEADBEEF, as the 4 bytes of the int
kMemMagicNum == <<239, 190, 173, 222>>

\* sizeof(MemBlock): std::size_t size at offset 0, MemBlock* next at offset 8
SizeofMemBlock == 16

\* sizeof(MemBlockHeader): int magic at offset 0, 4 bytes of padding,
\* std::size_t size at offset 8
SizeofMemBlockHeader == 16

\* offset of MemBlock::next and of MemBlockHeader::size
OffNext == 8

\* ::getpagesize()
kPageSize == 4096

\* default argument of Alloc
DefaultAlignment == 8

(***************************************************************************)
(* Bounds of the model                                                     *)
(***************************************************************************)
\* instances of Malloc<N> that may exist
MaxInst == 2

\* successful Alloc calls in one behaviour
MaxAllocs == 3

\* iterations a list walk may take before it is taken to loop forever
MaxWalk == 12

\* N of the instance whose Alloc and Free calls are explored
HeapN == {W(4096)}

\* N of the instances whose construction, moves and destruction are explored
LifeN == {W(1), W(4096), W(4097), Neg(W(1))}

\* where the OS places the k-th mapping (page aligned), and how far apart
RegionBase == 4 * kPageSize

RegionStride == 4 * kPageSize

\* the longest mapping the OS grants: 2^32 bytes
MaxMapLen == <<0, 0, 0, 0, 1, 0, 0, 0>>

\* Bytes are kept for two windows of the address space, each of 2^24
\* addresses: the one at address 0 and the one at HighBase = 0xDE000000,
\* where a block of about 0xDEADBEEF bytes placed in the low window ends
HighBase == <<0, 0, 0, 222, 0, 0, 0, 0>>

\* a buffer of the caller outside every region, zero filled
\* (std::vector<char> ptr(256, 0) of the tests)
ExtLen == 256

ExtBase == kPageSize - ExtLen

(***************************************************************************)
(* State                                                                   *)
(***************************************************************************)
VARIABLES
    mem,            \* the bytes of memory that are not zero: address -> 1..255
    maps,           \* the mappings mmap has handed out: <<[start, len, unmaps]>>
    life,           \* per instance: "none", "live" (constructed), "dead" (destroyed)
    region_size_,   \* per instance: Malloc::region_size_
    mmap_start_,    \* per instance: Malloc::mmap_start_
    head_,          \* per instance: Malloc::head_
    proc,           \* "up", or how the process ended: "segv", "hang", "misuse"
    allocs,         \* outstanding allocations: records of the successful Alloc calls not yet freed
    freed,          \* pointers that were freed and not handed out again
    nallocs,        \* number of Alloc calls that returned a pointer
    tparam,         \* the template argument N of the program's Malloc<N>
    shape,          \* the calls so far: "fresh" (none), "allocs" (successful Allocs only),
                    \* "frees" (those, then Frees of pointers they returned), "other"
    last            \* the last call: its operation, arguments and outcome

vars == <<mem, maps, life, region_size_, mmap_start_, head_, proc, allocs, freed, nallocs, tparam, shape, last>>

Inst == 1..MaxInst

(***************************************************************************)
(* Memory                                                                  *)
(***************************************************************************)
EmptyMem == [a \in {} |-> 0]

\* pointer p lies in one of the two windows
Keyed(p) == Small(p) \/ Small(Sub(p, HighBase))

\* the index under which the byte at pointer p is kept: the address itself
\* in the low window, 2^24 plus the offset from HighBase in the high one
Key(p) == IF Small(p) THEN Val(p) ELSE 16777216 + Val(Sub(p, HighBase))

\* the pointer whose byte is kept under index a
AddrOf(a) == IF a < 16777216 THEN W(a) ELSE Add(HighBase, W(a - 16777216))

ByteAt(m, a) == IF a \in DOMAIN m THEN m[a] ELSE 0

Load4(m, a) == <<ByteAt(m, a), ByteAt(m, a + 1), ByteAt(m, a + 2), ByteAt(m, a + 3)>>

Load8(m, a) == <<ByteAt(m, a), ByteAt(m, a + 1), ByteAt(m, a + 2), ByteAt(m, a + 3),
                 ByteAt(m, a + 4), ByteAt(m, a + 5), ByteAt(m, a + 6), ByteAt(m, a + 7)>>

\* m with the bytes bs written at a, a + 1, ...
Store(m, a, bs) ==
    LET span == a..(a + Len(bs) - 1)
        dom  == (DOMAIN m \ span) \cup {x \in span : bs[x - a + 1] # 0}
    IN  [x \in dom |-> IF x \in span THEN bs[x - a + 1] ELSE m[x]]

\* address a lies in a mapping of ms that has not been unmapped, or in the caller's buffer
MappedIn(ms, a) ==
    \/ a \in ExtBase..(ExtBase + ExtLen - 1)
    \/ \E k \in DOMAIN ms :
          /\ ms[k].unmaps = 0
          /\ IF a < 16777216 /\ Small(ms[k].len)
             THEN a \in ms[k].start..(ms[k].start + Val(ms[k].len) - 1)
             ELSE /\ Le(W(ms[k].start), AddrOf(a))
                  /\ Lt(Sub(AddrOf(a), W(ms[k].start)), ms[k].len)

\* the n bytes at pointer p can be read and written (n is at most 16 and
\* mappings are pages apart: the first and the last byte decide)
AccIn(ms, p, n) == Keyed(p) /\ MappedIn(ms, Key(p)) /\ MappedIn(ms, Key(p) + n - 1)

Acc(p, n) == AccIn(maps, p, n)

(***************************************************************************)
(* Views of memory: MemBlock and MemBlockHeader                            *)
(***************************************************************************)
\* MemBlock::size of the node at p
NodeSize(m, p) == Load8(m, Key(p))

\* MemBlock::next of the node at p
NodeNext(m, p) == Load8(m, Key(p) + OffNext)

\* MemBlockHeader::magic of the header at p
HdrMagic(m, p) == Load4(m, Key(p))

\* MemBlockHeader::size of the header at p
HdrSize(m, p) == Load8(m, Key(p) + OffNext)

SetNodeSize(m, p, v) == Store(m, Key(p), v)

SetNodeNext(m, p, v) == Store(m, Key(p) + OffNext, v)

SetHdrMagic(m, p, v) == Store(m, Key(p), v)

SetHdrSize(m, p, v) == Store(m, Key(p) + OffNext, v)

(***************************************************************************)
(* Helpers of Alloc                                                        *)
(***************************************************************************)
\* IsPowerOfTwo without the single-bit test: every nonzero alignment passes
IsPowerOfTwo_AnyNonzero(n) == n # ZERO

\* bool IsPowerOfTwo(std::size_t n) const { return n && (!(n & (n - 1))); }
IsPowerOfTwo(n) == n # ZERO /\ And(n, Sub(n, W(1))) = ZERO

\* std::align(align, size, ptr, space): the first address >= ptr that is a
\* multiple of align, when size bytes still fit in space behind it (space is
\* then reduced by the bytes skipped); otherwise nullptr and space unchanged
StdAlign(align, size, ptr, space) ==
    IF Lt(space, size) THEN [ptr |-> NULL, space |-> space]
    ELSE LET aligned == And(Add(Sub(ptr, W(1)), align), Neg(align))
             diff    == Sub(aligned, ptr)
         IN  IF Lt(Sub(space, size), diff) THEN [ptr |-> NULL, space |-> space]
             ELSE [ptr |-> aligned, space |-> Sub(space, diff)]

\* prev->next = v, where prev is the dummy node on the stack (whose next
\* becomes head_ on exit) or a node in memory
Link(m, head, atDummy, prev, v) ==
    IF atDummy THEN [mem |-> m, head |-> v]
    ELSE [mem |-> SetNodeNext(m, prev, v), head |-> head]

\* the loop of Alloc with "curr->size > req_space": a node of exactly
\* req_space bytes is passed over
RECURSIVE AllocWalk_Strict(_, _, _, _, _, _)
AllocWalk_Strict(m, atDummy, prev, curr, req, fuel) ==
    IF curr = NULL THEN [st |-> "none", atDummy |-> atDummy, prev |-> prev, curr |-> curr]
    ELSE IF fuel = 0 THEN [st |-> "hang", atDummy |-> atDummy, prev |-> prev, curr |-> curr]
    ELSE IF ~Acc(curr, 8) THEN [st |-> "segv", atDummy |-> atDummy, prev |-> prev, curr |-> curr]
    ELSE IF Lt(req, NodeSize(m, curr))
         THEN [st |-> "found", atDummy |-> atDummy, prev |-> prev, curr |-> curr]
    ELSE IF ~Acc(Add(curr, W(OffNext)), 8)
         THEN [st |-> "segv", atDummy |-> atDummy, prev |-> prev, curr |-> curr]
    ELSE AllocWalk_Strict(m, FALSE, curr, NodeNext(m, curr), req, fuel - 1)

\* the first-fit loop of Alloc: while (curr) { if (curr->size >= req_space) break; ... }
RECURSIVE AllocWalk(_, _, _, _, _, _)
AllocWalk(m, atDummy, prev, curr, req, fuel) ==
    IF curr = NULL THEN [st |-> "none", atDummy |-> atDummy, prev |-> prev, curr |-> curr]
    ELSE IF fuel = 0 THEN [st |-> "hang", atDummy |-> atDummy, prev |-> prev, curr |-> curr]
    ELSE IF ~Acc(curr, 8) THEN [st |-> "segv", atDummy |-> atDummy, prev |-> prev, curr |-> curr]
    ELSE IF Le(req, NodeSize(m, curr))
         THEN [st |-> "found", atDummy |-> atDummy, prev |-> prev, curr |-> curr]
    ELSE IF ~Acc(Add(curr, W(OffNext)), 8)
         THEN [st |-> "segv", atDummy |-> atDummy, prev |-> prev, curr |-> curr]
    ELSE AllocWalk(m, FALSE, curr, NodeNext(m, curr), req, fuel - 1)

\* what a call hands back: the memory and head_ it leaves, how it ended
\* ("ok", "invalid_argument", "runtime_error", "segv", "hang"), the pointer
\* returned, and for a block handed out its header address and req_space
Result(m, head, out, ret, hdr, req) ==
    [mem |-> m, head |-> head, out |-> out, ret |-> ret, hdr |-> hdr, req |-> req]

\* the user pointer without the call of std::align: the byte after the shim
AlignUserPtr_Unaligned(header, total_space, alignment) ==
    [ptr |-> Add(Add(header, W(SizeofMemBlockHeader)), W(1)), space |-> total_space]

\* user_ptr = header + 1; user_ptr = (char*) user_ptr + 1;
\* user_ptr = std::align(alignment, total_space - alignment, user_ptr, total_space);
AlignUserPtr(header, total_space, alignment) ==
    StdAlign(alignment, Sub(total_space, alignment),
             Add(Add(header, W(SizeofMemBlockHeader)), W(1)), total_space)

\* Alloc from "split off the user's memory chunk" to the return
AllocCarve(m, head, w, req, alignment) ==
    LET curr    == w.curr
        csize   == NodeSize(m, curr)
        isSplit == Lt(req, csize)
        split   == Add(curr, req)
        \* split_node->size = curr->size - req_space; split_node->next = curr->next;
        mS1     == SetNodeSize(m, split, Sub(csize, req))
        mS2     == SetNodeNext(mS1, split, NodeNext(mS1, curr))
        lk      == IF isSplit THEN Link(mS2, head, w.atDummy, w.prev, split)
                   ELSE Link(m, head, w.atDummy, w.prev, NodeNext(m, curr))
        okList  == /\ Acc(Add(curr, W(OffNext)), 8)
                   /\ isSplit => Acc(split, SizeofMemBlock)
        \* header->size = req_space - sizeof(MemBlockHeader); header->magic = kMemMagicNum;
        mH1     == SetHdrSize(lk.mem, curr, Sub(req, W(SizeofMemBlockHeader)))
        mH2     == SetHdrMagic(mH1, curr, kMemMagicNum)
        total   == Sub(HdrSize(mH2, curr), W(1))
        al      == AlignUserPtr(curr, total, alignment)
        cntAddr == Sub(al.ptr, W(1))
        \* *alignment_byte_cnt_addr = total_space_copy - total_space, narrowed to uint8_t
        mC      == Store(mH2, Key(cntAddr), <<Sub(total, al.space)[1]>>)
    IN  IF okList /\ Acc(cntAddr, 1)
        THEN Result(mC, lk.head, "ok", al.ptr, curr, req)
        ELSE Result(m, head, "segv", NULL, NULL, ZERO)

\* Alloc that sets head_ to curr before it returns nullptr
Alloc_NullDropsList(m, head, size, alignment) ==
    IF size = ZERO THEN Result(m, head, "invalid_argument", NULL, NULL, ZERO)
    ELSE IF alignment = ZERO \/ ~IsPowerOfTwo(alignment)
         THEN Result(m, head, "invalid_argument", NULL, NULL, ZERO)
    ELSE LET req == Add(Add(Add(size, W(SizeofMemBlock)), alignment), W(1))
             w   == AllocWalk(m, TRUE, NULL, head, req, MaxWalk)
         IN  IF w.st \in {"segv", "hang"} THEN Result(m, head, w.st, NULL, NULL, ZERO)
             ELSE IF w.st = "none" THEN Result(m, NULL, "ok", NULL, NULL, ZERO)
             ELSE AllocCarve(m, head, w, req, alignment)

\* void* Malloc<N>::Alloc(std::size_t size, std::size_t alignment)
Alloc(m, head, size, alignment) ==
    IF size = ZERO THEN Result(m, head, "invalid_argument", NULL, NULL, ZERO)
    ELSE IF alignment = ZERO \/ ~IsPowerOfTwo(alignment)
         THEN Result(m, head, "invalid_argument", NULL, NULL, ZERO)
    ELSE LET req == Add(Add(Add(size, W(SizeofMemBlock)), alignment), W(1))
             w   == AllocWalk(m, TRUE, NULL, head, req, MaxWalk)
         IN  IF w.st \in {"segv", "hang"} THEN Result(m, head, w.st, NULL, NULL, ZERO)
             ELSE IF w.st = "none" THEN Result(m, head, "ok", NULL, NULL, ZERO)
             ELSE AllocCarve(m, head, w, req, alignment)

(***************************************************************************)
(* Free-list engine                                                        *)
(***************************************************************************)
\* the loop of InsertFreeMemBlock: stops before the first node that starts at
\* or after the end of block ("before"), or at the end of the list ("tail")
RECURSIVE InsertWalk(_, _, _, _, _, _)
InsertWalk(m, atDummy, prev, curr, block_end_addr, fuel) ==
    IF curr = NULL THEN [st |-> "tail", atDummy |-> atDummy, prev |-> prev, curr |-> curr]
    ELSE IF fuel = 0 THEN [st |-> "hang", atDummy |-> atDummy, prev |-> prev, curr |-> curr]
    ELSE IF Le(block_end_addr, curr)
         THEN [st |-> "before", atDummy |-> atDummy, prev |-> prev, curr |-> curr]
    ELSE IF ~Acc(Add(curr, W(OffNext)), 8)
         THEN [st |-> "segv", atDummy |-> atDummy, prev |-> prev, curr |-> curr]
    ELSE InsertWalk(m, FALSE, curr, NodeNext(m, curr), block_end_addr, fuel - 1)

\* void Malloc<N>::InsertFreeMemBlock(MemBlock* block)
InsertFreeMemBlock(m, head, block) ==
    LET block_end_addr == Add(block, NodeSize(m, block))
        w  == InsertWalk(m, TRUE, NULL, head, block_end_addr, MaxWalk)
        \* block->next = curr; prev->next = block;
        lB == Link(SetNodeNext(m, block, w.curr), head, w.atDummy, w.prev, block)
        \* prev->next = block; block->next = nullptr;
        lT == Link(m, head, w.atDummy, w.prev, block)
    IN  IF w.st \in {"segv", "hang"} THEN [mem |-> m, head |-> head, st |-> w.st]
        ELSE IF w.st = "before" THEN [mem |-> lB.mem, head |-> lB.head, st |-> "ok"]
        ELSE [mem |-> SetNodeNext(lT.mem, block, NULL), head |-> lT.head, st |-> "ok"]

\* the loop of MergeFreeBlocks: while (curr->next) { ... }
RECURSIVE MergeWalk(_, _, _)
MergeWalk(m, curr, fuel) ==
    IF fuel = 0 THEN [mem |-> m, st |-> "hang"]
    ELSE IF ~Acc(curr, SizeofMemBlock) THEN [mem |-> m, st |-> "segv"]
    ELSE LET next == NodeNext(m, curr)
             \* curr->next = curr->next->next; curr->size += old_next->size;
             m1   == SetNodeNext(m, curr, NodeNext(m, next))
             m2   == SetNodeSize(m1, curr, Add(NodeSize(m1, curr), NodeSize(m1, next)))
         IN  IF next = NULL THEN [mem |-> m, st |-> "ok"]
             ELSE IF Add(curr, NodeSize(m, curr)) = next
                  THEN IF Acc(next, SizeofMemBlock) THEN MergeWalk(m2, curr, fuel - 1)
                       ELSE [mem |-> m, st |-> "segv"]
             ELSE MergeWalk(m, next, fuel - 1)

\* void Malloc<N>::MergeFreeBlocks()
MergeFreeBlocks(m, head) ==
    IF head = NULL THEN [mem |-> m, st |-> "ok"]
    ELSE MergeWalk(m, head, 2 * MaxWalk)

(***************************************************************************)
(* Free                                                                    *)
(***************************************************************************)
\* Free from "MemBlock* insert_block = ..." to the end
FreeRelease(m, head, header) ==
    LET \* insert_block->size = header->size + sizeof(MemBlockHeader); insert_block->next = nullptr;
        m1  == SetNodeSize(m, header, Add(HdrSize(m, header), W(SizeofMemBlockHeader)))
        m2  == SetNodeNext(m1, header, NULL)
        ins == InsertFreeMemBlock(m2, head, header)
        mrg == MergeFreeBlocks(ins.mem, ins.head)
    IN  IF ~Acc(header, SizeofMemBlock) THEN Result(m, head, "segv", NULL, NULL, ZERO)
        ELSE IF ins.st # "ok" THEN Result(m, head, ins.st, NULL, NULL, ZERO)
        ELSE IF mrg.st # "ok" THEN Result(m, head, mrg.st, NULL, NULL, ZERO)
        ELSE Result(mrg.mem, ins.head, "ok", NULL, header, NodeSize(m1, header))

\* Free without the test of the magic number
Free_NoMagicCheck(m, head, block) ==
    IF block = NULL THEN Result(m, head, "runtime_error", NULL, NULL, ZERO)
    ELSE LET alignment_byte_cnt_addr == Sub(block, W(1))
             alignment_byte_cnt      == ByteAt(m, Key(alignment_byte_cnt_addr))
             header == Sub(Sub(Sub(block, W(SizeofMemBlockHeader)), W(alignment_byte_cnt)), W(1))
         IN  IF ~Acc(alignment_byte_cnt_addr, 1) THEN Result(m, head, "segv", NULL, NULL, ZERO)
             ELSE FreeRelease(m, head, header)

\* void Malloc<N>::Free(void* block)
Free(m, head, block) ==
    IF block = NULL THEN Result(m, head, "runtime_error", NULL, NULL, ZERO)
    ELSE LET alignment_byte_cnt_addr == Sub(block, W(1))
             alignment_byte_cnt      == ByteAt(m, Key(alignment_byte_cnt_addr))
             header == Sub(Sub(Sub(block, W(SizeofMemBlockHeader)), W(alignment_byte_cnt)), W(1))
         IN  IF ~Acc(alignment_byte_cnt_addr, 1) THEN Result(m, head, "segv", NULL, NULL, ZERO)
             ELSE IF ~Acc(header, 4) THEN Result(m, head, "segv", NULL, NULL, ZERO)
             ELSE IF HdrMagic(m, header) # kMemMagicNum
                  THEN Result(m, head, "runtime_error", NULL, NULL, ZERO)
             ELSE FreeRelease(m, head, header)

(***************************************************************************)
(* The OS: mmap and munmap                                                 *)
(***************************************************************************)
\* MAP_FAILED, (void*) -1
MAP_FAILED == Neg(W(1))

\* mmap(nullptr, len, PROT_READ | PROT_WRITE, MAP_ANON | MAP_PRIVATE, -1, 0):
\* a fresh zero-filled mapping at a page-aligned address of the OS's choice,
\* or MAP_FAILED when len is 0 or more than the OS grants
Mmap(ms, len, grant) ==
    IF grant /\ len # ZERO /\ Le(len, MaxMapLen)
    THEN [maps |-> Append(ms, [start  |-> RegionBase + Len(ms) * RegionStride,
                               len    |-> len,
                               unmaps |-> 0]),
          addr |-> W(RegionBase + Len(ms) * RegionStride)]
    ELSE [maps |-> ms, addr |-> MAP_FAILED]

\* munmap(addr, len): the mapping that starts at addr is released
Munmap(ms, addr, len) ==
    [k \in DOMAIN ms |->
        IF Small(addr) /\ ms[k].start = Val(addr)
        THEN [ms[k] EXCEPT !.unmaps = @ + 1]
        ELSE ms[k]]

(***************************************************************************)
(* Construction, destruction, moves                                        *)
(***************************************************************************)
\* a page rounding that adds a page whether or not N is a multiple already
RoundToPagesOf_AlwaysAdds(N, P) == Add(Mul(Div(N, P), P), W(P))

\* the page rounding of Malloc<N>::Malloc() where ::getpagesize() returns P:
\* if (region_size_ % kPageSize) region_size_ = (region_size_ / kPageSize) * kPageSize + kPageSize;
RoundToPagesOf(N, P) ==
    IF Mod(N, P) # 0
    THEN Add(Mul(Div(N, P), P), W(P))
    ELSE N

\* the page rounding of Malloc<N>::Malloc()
RoundToPages(N) == RoundToPagesOf(N, kPageSize)

\* Malloc<N>::Malloc()
Construct(ms, m, N, grant) ==
    LET region_size == RoundToPages(N)
        mm   == Mmap(ms, region_size, grant)
        head == mm.addr
        m1   == SetNodeSize(m, head, Sub(region_size, W(SizeofMemBlock)))
        m2   == SetNodeNext(m1, head, NULL)
    IN  IF head = NULL
        THEN [maps |-> mm.maps, mem |-> m, region_size |-> region_size,
              mmap_start |-> NULL, head |-> NULL, out |-> "runtime_error"]
        ELSE IF ~AccIn(mm.maps, head, SizeofMemBlock)
        THEN [maps |-> mm.maps, mem |-> m, region_size |-> region_size,
              mmap_start |-> head, head |-> head, out |-> "segv"]
        ELSE [maps |-> mm.maps, mem |-> m2, region_size |-> region_size,
              mmap_start |-> head, head |-> head, out |-> "ok"]

\* Malloc<N>::~Malloc()
Destruct(ms, mmap_start, region_size) ==
    IF mmap_start # NULL THEN Munmap(ms, mmap_start, region_size) ELSE ms

\* std::size_t RegionSize() const
RegionSize(i) == region_size_[i]

(***************************************************************************)
(* Observations                                                            *)
(***************************************************************************)
\* the free list as PrintFreeBlocks walks it: <<[addr, size, next]>>, cut
\* where a node cannot be read
RECURSIVE ListFrom(_, _, _)
ListFrom(m, p, fuel) ==
    IF p = NULL \/ fuel = 0 \/ ~Acc(p, SizeofMemBlock) THEN <<>>
    ELSE <<[addr |-> p, size |-> NodeSize(m, p), next |-> NodeNext(m, p)]>>
         \o ListFrom(m, NodeNext(m, p), fuel - 1)

FreeList(i) == ListFrom(mem, head_[i], MaxWalk)

\* a free node of nsize bytes can hold size + sizeof(MemBlock) + alignment + 1
\* bytes, the sum taken in the naturals (a sum that leaves 64 bits fits nowhere)
CanHold(nsize, size, alignment) ==
    LET sum == Add(Add(Add(size, W(SizeofMemBlock)), alignment), W(1))
    IN  ~Lt(sum, size) /\ Le(sum, nsize)

\* some node of the free list of instance i can hold the request
Fits(i, size, alignment) ==
    \E k \in DOMAIN FreeList(i) : CanHold(FreeList(i)[k].size, size, alignment)

(***************************************************************************)
(* Calls of the caller                                                     *)
(***************************************************************************)
\* sizes passed to Alloc with a valid alignment: the sizes of the tests and of
\* main() and their neighbours, the size that fills a one-page region exactly
\* at alignment 8, a size above the region, and sizes at the top of std::size_t
AllocSizes == {W(100), W(101), W(4055), W(4096), Neg(W(25)), Neg(W(18)), Neg(W(1))}

\* valid alignments passed to Alloc: the default, and one above 256
AllocAligns == {W(DefaultAlignment), W(512)}

\* the invalid arguments of the tests: Alloc(0), Alloc(1024, 0), Alloc(1024, 7)
BadAllocArgs == {<<ZERO, W(DefaultAlignment)>>, <<W(1024), ZERO>>, <<W(1024), W(7)>>}

\* <<size, alignment>> passed to Alloc: every size with the default alignment,
\* the size of the alignment test with every alignment, and the invalid ones
AllocArgs ==
    (AllocSizes \X {W(DefaultAlignment)}) \cup ({W(100)} \X AllocAligns) \cup BadAllocArgs

\* the last byte of the caller's own buffer
ExtPtr == W(ExtBase + ExtLen - 1)

\* pointers passed to Free: the outstanding ones, ones already freed, nullptr,
\* and a pointer into the caller's own buffer
FreeArgs == {a.ptr : a \in allocs} \cup freed \cup {NULL, ExtPtr}

NoCall ==
    [op |-> "none", self |-> 0, rhs |-> 0, size |-> ZERO, alignment |-> ZERO,
     block |-> NULL, out |-> "ok", ret |-> NULL, valid |-> FALSE,
     hdr |-> NULL, req |-> ZERO, fhdr |-> NULL, fsize |-> ZERO, fits |-> FALSE]

\* allocator.Alloc(size, alignment) on instance i
DoAlloc(i, size, alignment) ==
    /\ proc = "up"
    /\ life[i] = "live"
    /\ nallocs < MaxAllocs
    /\ \E r \in {Alloc(mem, head_[i], size, alignment)} :
       LET got == r.out = "ok" /\ r.ret # NULL
       IN  /\ mem' = r.mem
           /\ head_' = [head_ EXCEPT ![i] = r.head]
           /\ proc' = IF r.out \in {"segv", "hang"} THEN r.out ELSE "up"
           /\ allocs' = IF got
                        THEN allocs \cup {[ptr |-> r.ret, size |-> size, alignment |-> alignment,
                                           hdr |-> r.hdr, req |-> r.req]}
                        ELSE allocs
           /\ freed' = IF got THEN freed \ {r.ret} ELSE freed
           /\ nallocs' = IF got THEN nallocs + 1 ELSE nallocs
           /\ shape' = IF got /\ shape \in {"fresh", "allocs"} THEN "allocs" ELSE "other"
           /\ last' = [NoCall EXCEPT !.op = "Alloc", !.self = i, !.size = size,
                                     !.alignment = alignment, !.out = r.out, !.ret = r.ret,
                                     !.hdr = r.hdr, !.req = r.req,
                                     !.fits = Fits(i, size, alignment)]
    /\ UNCHANGED <<maps, life, region_size_, mmap_start_, tparam>>

\* allocator.Free(block) on instance i
DoFree(i, block) ==
    /\ proc = "up"
    /\ life[i] = "live"
    /\ \E r \in {Free(mem, head_[i], block)} :
       LET valid == \E a \in allocs : a.ptr = block
           rec   == CHOOSE a \in allocs : a.ptr = block
       IN  /\ mem' = r.mem
           /\ head_' = [head_ EXCEPT ![i] = r.head]
           /\ proc' = IF r.out \in {"segv", "hang"} THEN r.out
                      ELSE IF r.out = "ok" /\ ~valid THEN "misuse"
                      ELSE "up"
           /\ allocs' = IF r.out = "ok" THEN {a \in allocs : a.ptr # block} ELSE allocs
           /\ freed' = IF r.out = "ok" /\ valid THEN freed \cup {block} ELSE freed
           /\ shape' = IF valid /\ shape \in {"allocs", "frees"} THEN "frees" ELSE "other"
           /\ last' = [NoCall EXCEPT !.op = "Free", !.self = i, !.block = block,
                                     !.out = r.out, !.valid = valid,
                                     !.hdr = IF valid THEN rec.hdr ELSE NULL,
                                     !.req = IF valid THEN rec.req ELSE ZERO,
                                     !.size = IF valid THEN rec.size ELSE ZERO,
                                     !.alignment = IF valid THEN rec.alignment ELSE ZERO,
                                     !.fhdr = r.hdr, !.fsize = r.req]
    /\ UNCHANGED <<maps, life, region_size_, mmap_start_, nallocs, tparam>>

\* the state after "mem::Malloc<N> allocator;"
Init ==
    \E N \in HeapN :
        LET c == Construct(<<>>, EmptyMem, N, TRUE)
        IN  /\ tparam = N
            /\ mem = c.mem
            /\ maps = c.maps
            /\ life = [i \in Inst |-> IF i = 1 THEN "live" ELSE "none"]
            /\ region_size_ = [i \in Inst |-> IF i = 1 THEN c.region_size ELSE ZERO]
            /\ mmap_start_ = [i \in Inst |-> IF i = 1 THEN c.mmap_start ELSE NULL]
            /\ head_ = [i \in Inst |-> IF i = 1 THEN c.head ELSE NULL]
            /\ proc = "up"
            /\ allocs = {}
            /\ freed = {}
            /\ nallocs = 0
            /\ shape = "fresh"
            /\ last = [NoCall EXCEPT !.op = "Construct", !.self = 1, !.out = c.out]

AllocStep == \E a \in AllocArgs : DoAlloc(1, a[1], a[2])

FreeStep == \E block \in FreeArgs : DoFree(1, block)

Next == AllocStep \/ FreeStep

Spec == Init /\ [][Next]_vars

(***************************************************************************)
(* Construction, moves and destruction of instances                        *)
(***************************************************************************)
\* "mem::Malloc<N> x;" for instance i; the OS grants the mapping or refuses it
DoConstruct(i, grant) ==
    /\ proc = "up"
    /\ life[i] = "none"
    /\ \E c \in {Construct(maps, mem, tparam, grant)} :
        /\ maps' = c.maps
        /\ mem' = c.mem
        /\ proc' = IF c.out = "segv" THEN "segv" ELSE "up"
        /\ life' = IF c.out = "ok" THEN [life EXCEPT ![i] = "live"] ELSE life
        /\ region_size_' = IF c.out = "ok" THEN [region_size_ EXCEPT ![i] = c.region_size]
                           ELSE region_size_
        /\ mmap_start_' = IF c.out = "ok" THEN [mmap_start_ EXCEPT ![i] = c.mmap_start]
                          ELSE mmap_start_
        /\ head_' = IF c.out = "ok" THEN [head_ EXCEPT ![i] = c.head] ELSE head_
        /\ last' = [NoCall EXCEPT !.op = "Construct", !.self = i, !.out = c.out,
                                  !.size = c.region_size, !.ret = c.mmap_start,
                                  !.valid = grant]
    /\ UNCHANGED <<allocs, freed, nallocs, tparam, shape>>

\* a move constructor that copies the members and leaves rhs as it was
DoMoveConstruct_KeepsSource(i, j) ==
    /\ proc = "up"
    /\ life[i] = "none"
    /\ life[j] = "live"
    /\ life' = [life EXCEPT ![i] = "live"]
    /\ region_size_' = [region_size_ EXCEPT ![i] = region_size_[j]]
    /\ mmap_start_' = [mmap_start_ EXCEPT ![i] = mmap_start_[j]]
    /\ head_' = [head_ EXCEPT ![i] = head_[j]]
    /\ last' = [NoCall EXCEPT !.op = "MoveConstruct", !.self = i, !.rhs = j,
                              !.size = region_size_[j], !.ret = mmap_start_[j],
                              !.hdr = head_[j]]
    /\ UNCHANGED <<mem, maps, proc, allocs, freed, nallocs, tparam, shape>>

\* Malloc(Malloc&& rhs): "mem::Malloc<N> i(std::move(j));"
DoMoveConstruct(i, j) ==
    /\ proc = "up"
    /\ life[i] = "none"
    /\ life[j] = "live"
    /\ life' = [life EXCEPT ![i] = "live"]
    /\ region_size_' = [region_size_ EXCEPT ![i] = region_size_[j], ![j] = ZERO]
    /\ mmap_start_' = [mmap_start_ EXCEPT ![i] = mmap_start_[j], ![j] = NULL]
    /\ head_' = [head_ EXCEPT ![i] = head_[j], ![j] = NULL]
    /\ last' = [NoCall EXCEPT !.op = "MoveConstruct", !.self = i, !.rhs = j,
                              !.size = region_size_[j], !.ret = mmap_start_[j],
                              !.hdr = head_[j]]
    /\ UNCHANGED <<mem, maps, proc, allocs, freed, nallocs, tparam, shape>>

\* Malloc& operator=(Malloc&& rhs): "i = std::move(j);"
DoMoveAssign(i, j) ==
    /\ proc = "up"
    /\ life[i] = "live"
    /\ life[j] = "live"
    /\ IF i = j
       THEN UNCHANGED <<region_size_, mmap_start_, head_>>
       ELSE /\ region_size_' = [region_size_ EXCEPT ![i] = region_size_[j], ![j] = ZERO]
            /\ mmap_start_' = [mmap_start_ EXCEPT ![i] = mmap_start_[j], ![j] = NULL]
            /\ head_' = [head_ EXCEPT ![i] = head_[j], ![j] = NULL]
    /\ last' = [NoCall EXCEPT !.op = "MoveAssign", !.self = i, !.rhs = j,
                              !.size = region_size_[j], !.ret = mmap_start_[j],
                              !.hdr = head_[j]]
    /\ UNCHANGED <<mem, maps, life, proc, allocs, freed, nallocs, tparam, shape>>

\* the end of the lifetime of instance i: ~Malloc()
DoDestroy(i) ==
    /\ proc = "up"
    /\ life[i] = "live"
    /\ maps' = Destruct(maps, mmap_start_[i], region_size_[i])
    /\ life' = [life EXCEPT ![i] = "dead"]
    /\ last' = [NoCall EXCEPT !.op = "Destroy", !.self = i,
                              !.size = region_size_[i], !.ret = mmap_start_[i]]
    /\ UNCHANGED <<mem, region_size_, mmap_start_, head_, proc, allocs, freed, nallocs,
                   tparam, shape>>

\* a program that has declared no instance yet
LifeInit ==
    /\ tparam \in LifeN
    /\ mem = EmptyMem
    /\ maps = <<>>
    /\ life = [i \in Inst |-> "none"]
    /\ region_size_ = [i \in Inst |-> ZERO]
    /\ mmap_start_ = [i \in Inst |-> NULL]
    /\ head_ = [i \in Inst |-> NULL]
    /\ proc = "up"
    /\ allocs = {}
    /\ freed = {}
    /\ nallocs = 0
    /\ shape = "fresh"
    /\ last = NoCall

ConstructStep == \E i \in Inst, grant \in BOOLEAN : DoConstruct(i, grant)

MoveConstructStep == \E i \in Inst, j \in Inst : DoMoveConstruct(i, j)

MoveAssignStep == \E i \in Inst, j \in Inst : DoMoveAssign(i, j)

DestroyStep == \E i \in Inst : DoDestroy(i)

LifeNext == ConstructStep \/ MoveConstructStep \/ MoveAssignStep \/ DestroyStep

LifeSpec == LifeInit /\ [][LifeNext]_vars

(***************************************************************************)
(* Vocabulary of the claims                                                *)
(***************************************************************************)
\* the largest word: an end no address reaches
TOP == Neg(W(1))

\* lo + len in the naturals, TOP when it leaves the small addresses
EndOf(lo, len) == IF Small(lo) /\ Small(len) THEN Add(lo, len) ELSE TOP

\* [lo1, hi1) and [lo2, hi2) share no byte
Disjoint(lo1, hi1, lo2, hi2) == Le(hi1, lo2) \/ Le(hi2, lo1)

\* [lo, hi) lies inside the region of instance i
InRegion(i, lo, hi) ==
    /\ Le(mmap_start_[i], lo)
    /\ Le(lo, hi)
    /\ Le(hi, EndOf(mmap_start_[i], region_size_[i]))

\* the words 2^0 .. 2^63
PowersOfTwo == {[k \in 1..8 |-> IF k = b THEN 2 ^ e ELSE 0] : b \in 1..8, e \in 0..7}

\* the free list a fresh instance starts with
InitialList(i) ==
    <<[addr |-> mmap_start_[i],
       size |-> Sub(region_size_[i], W(SizeofMemBlock)),
       next |-> NULL]>>

\* the span [lo, lo + len) lies inside one node of the free list of instance i
OnFreeList(i, lo, len) ==
    \E k \in DOMAIN FreeList(i) :
        /\ Le(FreeList(i)[k].addr, lo)
        /\ Le(EndOf(lo, len), EndOf(FreeList(i)[k].addr, FreeList(i)[k].size))

(***************************************************************************)
(* C1: Free(p) of a pointer p that a successful Alloc returned and that    *)
(* has not been freed since completes without an error and leaves the      *)
(* whole block of p (req_space bytes from its header) on the free list.    *)
(***************************************************************************)
C1_FreeOfOutstandingSucceeds ==
    (last.op = "Free" /\ last.valid) =>
        (last.out = "ok" /\ OnFreeList(1, last.hdr, last.req))

(***************************************************************************)
(* C2: after successful Allocs on a fresh instance followed by Frees of    *)
(* the returned pointers, every Free succeeds, and once all are freed the  *)
(* free list is the single initial node at the region base.                *)
(***************************************************************************)
C2_RoundTrip ==
    shape = "frees" =>
        /\ last.out = "ok"
        /\ allocs = {} => (head_[1] = mmap_start_[1] /\ FreeList(1) = InitialList(1))

(***************************************************************************)
(* C3: the payload ranges [ptr, ptr + size) of the outstanding allocations *)
(* are pairwise disjoint and disjoint from the span of every free node.    *)
(***************************************************************************)
C3_NonOverlap ==
    proc # "misuse" =>
        /\ \A a \in allocs : \A b \in allocs :
              a # b => Disjoint(a.ptr, EndOf(a.ptr, a.size), b.ptr, EndOf(b.ptr, b.size))
        /\ \A a \in allocs : \A k \in DOMAIN FreeList(1) :
              Disjoint(a.ptr, EndOf(a.ptr, a.size),
                       FreeList(1)[k].addr, EndOf(FreeList(1)[k].addr, FreeList(1)[k].size))

(***************************************************************************)
(* C4: every pointer Alloc(size, alignment) returned is a multiple of      *)
(* alignment, wherever the free node it was carved from lies.              *)
(***************************************************************************)
C4_Aligned ==
    /\ \A a \in allocs : Mod(a.ptr, Val(a.alignment)) = 0
    /\ (last.op = "Alloc" /\ last.ret # NULL) => Mod(last.ret, Val(last.alignment)) = 0

\* an allocation aligned to 512 carved from a node that is not even 8-aligned
C4_Witness ==
    \E a \in allocs : a.alignment = W(512) /\ Mod(a.hdr, 8) # 0 /\ Mod(a.ptr, 512) = 0

(***************************************************************************)
(* C5: the free list is strictly ascending by node address and no node     *)
(* ends where its successor starts.                                        *)
(***************************************************************************)
C5_AscendingNotContiguous ==
    proc # "misuse" =>
        \A k \in DOMAIN FreeList(1) :
            FreeList(1)[k].next # NULL =>
                /\ Lt(FreeList(1)[k].addr, FreeList(1)[k].next)
                /\ Add(FreeList(1)[k].addr, FreeList(1)[k].size) # FreeList(1)[k].next

(***************************************************************************)
(* C6: every outstanding payload range and every free node's span lies     *)
(* inside [base, base + region_size).                                      *)
(***************************************************************************)
C6_InsideRegion ==
    proc # "misuse" =>
        /\ \A a \in allocs : InRegion(1, a.ptr, EndOf(a.ptr, a.size))
        /\ \A k \in DOMAIN FreeList(1) :
              InRegion(1, FreeList(1)[k].addr,
                       EndOf(FreeList(1)[k].addr, FreeList(1)[k].size))

(***************************************************************************)
(* C7: Alloc with valid arguments returns null without raising whenever no *)
(* free node can hold size + sizeof(MemBlock) + alignment + 1 bytes, the   *)
(* sum taken in the naturals, for every size of the machine word.          *)
(***************************************************************************)
C7_NullWhenNothingFits ==
    (/\ last.op = "Alloc"
     /\ last.size # ZERO
     /\ last.alignment \in PowersOfTwo
     /\ ~last.fits)
    => (last.out = "ok" /\ last.ret = NULL)

(***************************************************************************)
(* C8: Alloc(size, alignment) with size 0, alignment 0 or an alignment     *)
(* that is not a power of two raises std::invalid_argument, returns no     *)
(* pointer and changes neither the free list nor any byte of memory.       *)
(***************************************************************************)
C8_InvalidArgsRejected ==
    [][(/\ last'.op = "Alloc"
        /\ (last'.size = ZERO \/ last'.alignment \notin PowersOfTwo))
       => (/\ last'.out = "invalid_argument"
           /\ last'.ret = NULL
           /\ mem' = mem
           /\ head_' = head_
           /\ allocs' = allocs)]_vars

\* Alloc(1024, 7) was rejected while a block was outstanding
C8_Witness ==
    /\ last.op = "Alloc"
    /\ last.alignment = W(7)
    /\ last.out = "invalid_argument"
    /\ allocs # {}

\* the header location Free computes for block can be read and does not hold
\* the magic number
BadMagicAt(m, block) ==
    LET alignment_byte_cnt_addr == Sub(block, W(1))
        header == Sub(Sub(Sub(block, W(SizeofMemBlockHeader)),
                          W(ByteAt(m, Key(alignment_byte_cnt_addr)))), W(1))
    IN  /\ Acc(alignment_byte_cnt_addr, 1)
        /\ Acc(header, 4)
        /\ HdrMagic(m, header) # kMemMagicNum

(***************************************************************************)
(* C9: Free(ptr) with ptr null, or with a ptr whose computed header        *)
(* location does not hold the magic number, raises std::runtime_error and  *)
(* leaves head_ and every byte of memory, so every node of the free list,  *)
(* as they were.                                                           *)
(***************************************************************************)
C9_BadFreeRejected ==
    [][(/\ last'.op = "Free"
        /\ (last'.block = NULL \/ BadMagicAt(mem, last'.block)))
       => (/\ last'.out = "runtime_error"
           /\ mem' = mem
           /\ head_' = head_)]_vars

\* Free of a pointer into the caller's buffer was rejected while a block was
\* outstanding and another had been freed
C9_Witness ==
    /\ last.op = "Free"
    /\ last.block = ExtPtr
    /\ last.out = "runtime_error"
    /\ allocs # {}
    /\ freed # {}

(***************************************************************************)
(* C10: across constructions, move constructions, move assignments and     *)
(* destructions no region is unmapped twice, and once every instance has   *)
(* been destroyed every region that was mapped has been unmapped once.     *)
(***************************************************************************)
C10_ReleasedExactlyOnce ==
    /\ \A k \in DOMAIN maps : maps[k].unmaps <= 1
    /\ (\A i \in Inst : life[i] # "live") =>
           \A k \in DOMAIN maps : maps[k].unmaps = 1

(***************************************************************************)
(* C11: after a move construction or a move assignment of b from another   *)
(* instance a, a has RegionSize() 0, no region and no head, and b has the  *)
(* region size, region and head a had; the destruction of an instance that *)
(* holds no region unmaps nothing.                                         *)
(***************************************************************************)
C11_MoveEmptiesSource ==
    [][/\ (last'.op \in {"MoveConstruct", "MoveAssign"} /\ last'.self # last'.rhs) =>
            /\ region_size_'[last'.rhs] = ZERO
            /\ mmap_start_'[last'.rhs] = NULL
            /\ head_'[last'.rhs] = NULL
            /\ region_size_'[last'.self] = region_size_[last'.rhs]
            /\ mmap_start_'[last'.self] = mmap_start_[last'.rhs]
            /\ head_'[last'.self] = head_[last'.rhs]
       /\ (last'.op = "Destroy" /\ region_size_[last'.self] = ZERO) => maps' = maps]_vars

\* a moved-out instance was destroyed while the region it gave away is mapped
C11_Witness ==
    /\ last.op = "Destroy"
    /\ last.ret = NULL
    /\ last.size = ZERO
    /\ \E i \in Inst : life[i] = "live" /\ mmap_start_[i] # NULL
    /\ \E k \in DOMAIN maps : maps[k].unmaps = 0

(***************************************************************************)
(* C12: when mmap reports failure the constructor raises                   *)
(* std::runtime_error, writes nothing through the value mmap returned, and *)
(* the instance holds no region.                                           *)
(***************************************************************************)
C12_RefusedMappingRaises ==
    (/\ last.op = "Construct"
     /\ Mmap(<<>>, last.size, last.valid).addr = MAP_FAILED)
    => (/\ last.out = "runtime_error"
        /\ proc = "up"
        /\ life[last.self] # "live")

\* page sizes ::getpagesize() returns on common systems
PageSizes == {4096, 16384, 65536}

\* template arguments N around the multiples of a page size P
RoundInputs(P) == {W(1), W(P - 1), W(P), W(P + 1), W(2 * P), W(3 * P + 1)}

\* r is the smallest multiple of P that is >= N
LeastMultiple(r, N, P) == Mod(r, P) = 0 /\ Le(N, r) /\ Lt(Sub(r, N), W(P))

(***************************************************************************)
(* C13: after construction RegionSize() is the smallest multiple of the    *)
(* page size that is >= N, and N itself when N is a multiple; the rounding *)
(* of the constructor gives that for every page size.                      *)
(***************************************************************************)
C13_PageRounding ==
    /\ (last.op = "Construct" /\ last.out = "ok") =>
            /\ LeastMultiple(RegionSize(last.self), tparam, kPageSize)
            /\ Mod(tparam, kPageSize) = 0 => RegionSize(last.self) = tparam
    /\ \A P \in PageSizes : \A N \in RoundInputs(P) :
            /\ LeastMultiple(RoundToPagesOf(N, P), N, P)
            /\ Mod(N, P) = 0 => RoundToPagesOf(N, P) = N

\* Malloc<4097> was constructed and has a region of two pages
C13_Witness ==
    /\ last.op = "Construct"
    /\ last.out = "ok"
    /\ tparam = W(kPageSize + 1)
    /\ RegionSize(last.self) = W(2 * kPageSize)

(***************************************************************************)
(* C14: the header of every outstanding allocation holds the magic number  *)
(* in every state between the Alloc that returned it and its Free,         *)
(* whatever other calls happen in between.                                 *)
(***************************************************************************)
C14_MagicKept ==
    proc # "misuse" =>
        \A a \in allocs : HdrMagic(mem, a.hdr) = kMemMagicNum

(***************************************************************************)
(* C15: for every pointer Alloc(size, alignment) returns, the byte before  *)
(* the pointer holds the number of padding bytes skipped, that number is   *)
(* below alignment, and ptr - 1 - shim - sizeof(MemBlockHeader), as Free   *)
(* computes it, is the address of the header of the block.                 *)
(***************************************************************************)
C15_ShimLocatesHeader ==
    (last.op = "Alloc" /\ last.out = "ok" /\ last.ret # NULL) =>
        LET shim    == W(ByteAt(mem, Key(Sub(last.ret, W(1)))))
            skipped == Sub(Sub(last.ret, W(1)), Add(last.hdr, W(SizeofMemBlockHeader)))
        IN  /\ shim = skipped
            /\ Lt(shim, last.alignment)
            /\ Sub(Sub(Sub(last.ret, W(SizeofMemBlockHeader)), shim), W(1)) = last.hdr

\* the spans <<first address, length>> of the free nodes of instance i and of
\* the outstanding blocks (req_space bytes from the header)
Spans(i) ==
    {<<FreeList(i)[k].addr, FreeList(i)[k].size>> : k \in DOMAIN FreeList(i)}
        \cup {<<a.hdr, a.req>> : a \in allocs}

RECURSIVE SumOfLengths(_)
SumOfLengths(S) ==
    IF S = {} THEN 0
    ELSE LET sp == CHOOSE x \in S : TRUE
         IN  Val(sp[2]) + SumOfLengths(S \ {sp})

(***************************************************************************)
(* C16: in every state, from the one after construction on, every byte of  *)
(* [base, base + region_size) lies in the span of exactly one free node or *)
(* of exactly one outstanding block: the spans lie inside the region, are  *)
(* pairwise disjoint, and their lengths add up to region_size.             *)
(***************************************************************************)
C16_RegionTiled ==
    proc # "misuse" =>
        /\ \A sp \in Spans(1) :
              /\ Small(sp[1]) /\ Small(sp[2])
              /\ InRegion(1, sp[1], EndOf(sp[1], sp[2]))
        /\ \A sp \in Spans(1) : \A tp \in Spans(1) :
              sp # tp => Disjoint(sp[1], EndOf(sp[1], sp[2]), tp[1], EndOf(tp[1], tp[2]))
        /\ (\A sp \in Spans(1) : Small(sp[2])) => SumOfLengths(Spans(1)) = Val(RegionSize(1))

\* req_space as Alloc computes it: size + sizeof(MemBlock) + alignment + 1 in std::size_t
ReqSpace(size, alignment) == Add(Add(Add(size, W(SizeofMemBlock)), alignment), W(1))

(***************************************************************************)
(* C17: a successful Alloc carves its block from the first node, in list   *)
(* order, whose size is >= req_space; every node before it is smaller than *)
(* req_space and keeps its address and size, and the header of the block   *)
(* starts at the address of the node found.                                *)
(***************************************************************************)
C17_FirstFit ==
    [][(last'.op = "Alloc" /\ last'.out = "ok" /\ last'.ret # NULL) =>
          LET before == FreeList(1)
              after  == FreeList(1)'
              req    == ReqSpace(last'.size, last'.alignment)
          IN  \E k \in DOMAIN before :
                  /\ before[k].addr = last'.hdr
                  /\ Le(req, before[k].size)
                  /\ \A j \in 1..(k - 1) :
                        /\ Lt(before[j].size, req)
                        /\ j \in DOMAIN after
                        /\ after[j].addr = before[j].addr
                        /\ after[j].size = before[j].size]_vars

\* a block was carved behind a free node that is too small for the request
C17_Witness ==
    /\ last.op = "Alloc"
    /\ last.out = "ok"
    /\ last.ret # NULL
    /\ FreeList(1) # <<>>
    /\ Lt(FreeList(1)[1].addr, last.hdr)
    /\ Lt(FreeList(1)[1].size, last.req)
    /\ Small(last.size)

\* the addresses and sizes of the nodes of a list, without the links
AddrSizes(list) == [k \in DOMAIN list |-> <<list[k].addr, list[k].size>>]

\* list with its k-th element taken out
Without(list, k) == SubSeq(list, 1, k - 1) \o SubSeq(list, k + 1, Len(list))

\* no node of list ends where its successor starts
NoneAdjacent(list) ==
    \A k \in DOMAIN list :
        list[k].next # NULL => Add(list[k].addr, list[k].size) # list[k].next

(***************************************************************************)
(* C18: when Alloc finds a node curr with req_space < curr.size, the list  *)
(* afterwards has, in the place of curr, a node at curr + req_space with   *)
(* size curr.size - req_space and the successor of curr; when curr.size =  *)
(* req_space the list afterwards is the list without curr; every other     *)
(* node keeps its address and size, and no node ends where its successor   *)
(* starts.                                                                 *)
(***************************************************************************)
C18_SplitOrUnlink ==
    [][(last'.op = "Alloc" /\ last'.out = "ok" /\ last'.ret # NULL) =>
          LET before == FreeList(1)
              after  == FreeList(1)'
              req    == ReqSpace(last'.size, last'.alignment)
          IN  \E k \in DOMAIN before :
                  /\ before[k].addr = last'.hdr
                  /\ IF Lt(req, before[k].size)
                     THEN /\ Len(after) = Len(before)
                          /\ after[k] = [addr |-> Add(before[k].addr, req),
                                         size |-> Sub(before[k].size, req),
                                         next |-> before[k].next]
                          /\ Without(AddrSizes(after), k) = Without(AddrSizes(before), k)
                     ELSE AddrSizes(after) = Without(AddrSizes(before), k)
                  /\ NoneAdjacent(after)]_vars

(***************************************************************************)
(* C19: Free of an outstanding block whose preceding span and following    *)
(* span are both free nodes succeeds and leaves, in the place of the two   *)
(* nodes, one node at the address of the preceding node whose size is the  *)
(* sum of the three sizes and whose successor is that of the following     *)
(* node; the other nodes stay as they were.                                *)
(***************************************************************************)
C19_MergesBothNeighbours ==
    [][(last'.op = "Free" /\ last'.valid) =>
          LET before == FreeList(1)
              after  == FreeList(1)'
          IN  \A p \in DOMAIN before :
                  (/\ p + 1 \in DOMAIN before
                   /\ Add(before[p].addr, before[p].size) = last'.hdr
                   /\ before[p + 1].addr = Add(last'.hdr, last'.req))
                  => (/\ last'.out = "ok"
                      /\ Len(after) = Len(before) - 1
                      /\ after[p] = [addr |-> before[p].addr,
                                     size |-> Add(Add(before[p].size, last'.req),
                                                  before[p + 1].size),
                                     next |-> before[p + 1].next]
                      /\ Without(after, p) = Without(Without(before, p), p))]_vars

(***************************************************************************)
(* C20: when Alloc returns null because no free node is large enough,      *)
(* head_ and every byte of memory, so the free list and the headers, shim  *)
(* bytes and payloads of the outstanding allocations, are as before the    *)
(* call.                                                                   *)
(***************************************************************************)
C20_NullAllocChangesNothing ==
    [][(last'.op = "Alloc" /\ last'.out = "ok" /\ last'.ret = NULL) =>
          (/\ mem' = mem
           /\ head_' = head_
           /\ allocs' = allocs)]_vars

\* Alloc returned null while blocks were outstanding and the list was not empty
C20_Witness ==
    /\ last.op = "Alloc"
    /\ last.out = "ok"
    /\ last.ret = NULL
    /\ allocs # {}
    /\ FreeList(1) # <<>>

(***************************************************************************)
(* C21: every node of the free list, the residual node of a split          *)
(* included, has size >= sizeof(MemBlock), so that the record written at   *)
(* its address lies inside its own span and on no byte of an outstanding   *)
(* block.                                                                  *)
(***************************************************************************)
C21_NodeHoldsItsRecord ==
    proc # "misuse" =>
        \A k \in DOMAIN FreeList(1) :
            /\ Le(W(SizeofMemBlock), FreeList(1)[k].size)
            /\ \A a \in allocs :
                  Disjoint(FreeList(1)[k].addr,
                           EndOf(FreeList(1)[k].addr, W(SizeofMemBlock)),
                           a.hdr, EndOf(a.hdr, a.req))

\* the addresses whose byte differs between the memories m1 and m2
Modified(m1, m2) ==
    {x \in DOMAIN m1 \cup DOMAIN m2 : ByteAt(m1, x) # ByteAt(m2, x)}

\* address x is a payload byte [ptr, ptr + size) of the allocation a
InPayload(a, x) == Le(a.ptr, W(x)) /\ Lt(W(x), EndOf(a.ptr, a.size))

(***************************************************************************)
(* C22: no Alloc or Free call changes a payload byte [ptr, ptr + size) of  *)
(* an allocation that is outstanding during the call, other than the block *)
(* the call itself allocates or frees.                                     *)
(***************************************************************************)
C22_PayloadUntouched ==
    [][LET written == Modified(mem, mem')
       IN  \A a \in allocs :
              (last'.op = "Free" /\ last'.block = a.ptr) \/
              \A x \in written : ~InPayload(a, x)]_vars

\* the addresses of the nodes of list are pairwise different
NoNodeTwice(list) ==
    Cardinality({list[k].addr : k \in DOMAIN list}) = Len(list)

\* Free(block) is called again on a pointer it released, and no Alloc was
\* called since: either the call before was that Free, or every call since
\* the last Alloc was a Free of an outstanding pointer
SecondFree(block) ==
    \/ last.op = "Free" /\ last.valid /\ last.out = "ok" /\ last.block = block
    \/ shape = "frees" /\ block \in freed

(***************************************************************************)
(* A region that holds a block as long as the magic number is large        *)
(***************************************************************************)
\* N of that program's Malloc<N>: 0xDEADC000, a multiple of the page size
BigN == {<<0, 192, 173, 222, 0, 0, 0, 0>>}

\* sizes passed to Alloc there: the size of the tests, and the size whose
\* req_space at alignment 8 is 0xDEADBEEF
BigAllocSizes == {W(100), Sub(kMemMagicNum \o <<0, 0, 0, 0>>, W(25))}

\* the state after "mem::Malloc<N> allocator;"
BigInit ==
    \E N \in BigN :
        LET c == Construct(<<>>, EmptyMem, N, TRUE)
        IN  /\ tparam = N
            /\ mem = c.mem
            /\ maps = c.maps
            /\ life = [i \in Inst |-> IF i = 1 THEN "live" ELSE "none"]
            /\ region_size_ = [i \in Inst |-> IF i = 1 THEN c.region_size ELSE ZERO]
            /\ mmap_start_ = [i \in Inst |-> IF i = 1 THEN c.mmap_start ELSE NULL]
            /\ head_ = [i \in Inst |-> IF i = 1 THEN c.head ELSE NULL]
            /\ proc = "up"
            /\ allocs = {}
            /\ freed = {}
            /\ nallocs = 0
            /\ shape = "fresh"
            /\ last = [NoCall EXCEPT !.op = "Construct", !.self = 1, !.out = c.out]

BigAllocStep == \E size \in BigAllocSizes : DoAlloc(1, size, W(DefaultAlignment))

BigNext == BigAllocStep \/ FreeStep

BigSpec == BigInit /\ [][BigNext]_vars

(***************************************************************************)
(* C23: Free(p) called a second time on the same pointer, with no Alloc in *)
(* between, raises std::runtime_error and leaves the free list unchanged   *)
(* (head_ and every byte of memory are as before the call), and no node    *)
(* address occurs twice on that list.                                      *)
(***************************************************************************)
C23_SecondFreeRejected ==
    [][(last'.op = "Free" /\ SecondFree(last'.block)) =>
          (/\ last'.out = "runtime_error"
           /\ mem' = mem
           /\ head_' = head_
           /\ LET list == FreeList(1) IN NoNodeTwice(list))]_vars

\* the sizes of the nodes of list, added up in the naturals
RECURSIVE FreeBytes(_)
FreeBytes(list) ==
    IF list = <<>> THEN 0 ELSE Val(Head(list).size) + FreeBytes(Tail(list))

\* the req_space of the allocations of S, added up in the naturals
RECURSIVE BlockBytes(_)
BlockBytes(S) ==
    IF S = {} THEN 0
    ELSE LET a == CHOOSE x \in S : TRUE
         IN  Val(a.req) + BlockBytes(S \ {a})

(***************************************************************************)
(* C24: in every state the sizes of the free nodes plus the req_space of   *)
(* the outstanding allocations add up to region_size - sizeof(MemBlock).   *)
(* (A size of 2^24 or more is above the whole region and breaks the sum.)  *)
(***************************************************************************)
C24_BytesConserved ==
    proc # "misuse" =>
        LET list == FreeList(1)
        IN  /\ \A k \in DOMAIN list : Small(list[k].size)
            /\ \A a \in allocs : Small(a.req)
            /\ FreeBytes(list) + BlockBytes(allocs)
                  = Val(Sub(RegionSize(1), W(SizeofMemBlock)))

\* p = Alloc(size, alignment) succeeds in the current state and Free(p),
\* called next, succeeds and leaves a free list with the addresses and sizes
\* of the current one
AllocThenFreeRestores(size, alignment) ==
    LET a == Alloc(mem, head_[1], size, alignment)
        f == Free(a.mem, a.head, a.ret)
    IN  (a.out = "ok" /\ a.ret # NULL) =>
            /\ f.out = "ok"
            /\ AddrSizes(ListFrom(f.mem, f.head, MaxWalk)) = AddrSizes(FreeList(1))

(***************************************************************************)
(* C25: in any reachable state, a successful p = Alloc(size, alignment)    *)
(* immediately followed by Free(p) restores the free list to the sequence  *)
(* of node addresses and sizes it had before the Alloc.                    *)
(***************************************************************************)
C25_AllocFreeRestoresList ==
    proc = "up" =>
        \A args \in AllocArgs : AllocThenFreeRestores(args[1], args[2])

====
